---- MODULE Spec2Model ----
(***************************************************************************)
(* Model of the YouTube Adaptive Speed content script                      *)
(* (src/content/content.js) with its collaborators SpeedController         *)
(* (src/utils/speedController.js), SpeedAnalyzer (src/unnamed/part_003),   *)
(* PlayerUI (src/utils/playerUI.js) and the popup (src/unnamed/part_000).  *)
(*                                                                         *)
(* Speeds and multipliers are integers in thousandths (1000 = 1.0x).       *)
(* Video time, segment start and segment duration are whole seconds.       *)
(* A words-per-second value is the pair <<totalWords, totalDuration>>.     *)
(*                                                                         *)
(* What a handler reads from the player while it runs (video.currentTime,  *)
(* paused/ended/readyState, the ad markers of the DOM) changes freely      *)
(* between handlers, so each handler takes these readings as one input p.  *)
(* SpecPlayback alone keeps the player in a variable and advances it.      *)
(***************************************************************************)
EXTENDS Integers, Sequences, FiniteSets, TLC

VARIABLES
    url,              \* location: 0 = not a /watch page, v > 0 = /watch?v=v
    hasVideo,         \* a <video> element exists and is ready
    playbackRate,     \* video.playbackRate
    state,            \* content.js `state`
    checkInterval,    \* content.js `checkInterval` (0 = null)
    timers,           \* interval timers the browser still runs
    inits,            \* the pending / running initialize() calls
    listening,        \* a ratechange listener is attached to the video
    uiInjected,       \* PlayerUI callbacks are set and the UI is injected
    rateEvents,       \* queued ratechange events
    targetMultiplier, \* PlayerUI.targetMultiplier
    storage,          \* chrome.storage.sync
    events,           \* page and user events so far (bounds the exploration)
    fx,               \* what the last step did (observation only)
    call,             \* the last direct call of a SpeedController or
                      \* SpeedAnalyzer function, with the controller's cache
    player            \* the player as SpecPlayback follows it: currentTime,
                      \* playing or not, ad showing or not

vars == <<url, hasVideo, playbackRate, state, checkInterval,
          timers, inits, listening, uiInjected, rateEvents, targetMultiplier,
          storage, events, fx, call, player>>

(***************************************************************************)
(* Program constants                                                       *)
(***************************************************************************)
RECALC_INTERVAL_SECONDS == 16
MIN_SPEED == 1000
MAX_SPEED == 3000
SPEED_INCREMENT == 50
LOOKAHEAD_SEGMENTS == 12
\* BASELINE_WORDS_PER_SEC = 2.45 = 49 / 20
BaselineNum == 49
BaselineDen == 20
BASELINE_WORDS_PER_SEC == <<BaselineNum, BaselineDen>>
One == 1000
\* the target slider of the player UI: min, max and step
SLIDER_MIN == 1000
SLIDER_MAX == 2500
SLIDER_STEP == 50

(***************************************************************************)
(* Bounds of the model                                                     *)
(***************************************************************************)
MaxTime == 18          \* video time ranges over the sampled seconds up to this
MaxRateEvents == 1     \* ratechange events that may be queued at once
MaxTimers == 2         \* interval timer ids available
MaxEvents == 3         \* navigation signals, control uses and outside rate changes
MaxSpeedArg == 3200    \* largest magnitude passed to normalizeSpeed, in thousandths
MaxSegments == 14      \* longest transcript handed to SpeedAnalyzer directly
MaxArgTime == 30       \* latest currentTime handed to SpeedAnalyzer directly
MaxRecommended == 4000 \* largest recommendedSpeed multiplied directly, in thousandths
MaxTickTime == 17      \* latest video time a tick of the ticker bench reads
MaxClock == 18         \* how far the playback bench follows the video, in seconds

VideoIds == {1, 2}
Urls == {0} \cup VideoIds
\* the pages the tab can be loaded on
FirstPages == {0, 1}
Slots == {1, 2}
\* sampled video times: the start and a position past the recalculation interval
Times == {0, MaxTime}
SliderValues == {2000}
ExternalRates == {1250}
\* the readings of one handler run: currentTime, isVideoPlaying, isAdPlaying
Probes == {p \in [time : Times, playing : BOOLEAN, ad : BOOLEAN] : p.ad => p.time = 0}
\* for the handlers that never ask isVideoPlaying
CalcProbes == {p \in Probes : p.playing}
TimerIds == 1..MaxTimers
\* the readings of a tick that looks at the clock second by second
\* (the first seconds, and the seconds around the recalculation interval)
TickTimes == (0..3) \cup ((RECALC_INTERVAL_SECONDS - 1)..MaxTickTime)
TickProbes == [time : TickTimes, playing : BOOLEAN, ad : BOOLEAN]
\* the video times of a player that is followed second by second
ClockTimes == 0..MaxClock
\* where that video has its ad breaks: before it starts, and later on
AdBreaks == {0, RECALC_INTERVAL_SECONDS + 2}

(***************************************************************************)
(* Arithmetic helpers                                                      *)
(***************************************************************************)
Min(a, b) == IF a <= b THEN a ELSE b
Max(a, b) == IF a >= b THEN a ELSE b
Abs(a) == IF a >= 0 THEN a ELSE -a
\* Math.round(n / d) for n >= 0, d > 0 (halves round up)
RoundDiv(n, d) == (2 * n + d) \div (2 * d)
SetMin(S) == CHOOSE x \in S : \A y \in S : x <= y

(***************************************************************************)
(* SpeedAnalyzer                                                           *)
(***************************************************************************)
Whitespace == {" "}
Separators == Whitespace \cup {"-"}
MusicUpper == <<"[", "M", "u", "s", "i", "c", "]">>
MusicLower == <<"[", "m", "u", "s", "i", "c", "]">>

\* String.prototype.trim
Trim(text) ==
    LET keep == {i \in 1..Len(text) : text[i] \notin Whitespace}
    IN IF keep = {} THEN <<>>
       ELSE SubSeq(text, SetMin(keep), CHOOSE i \in keep : \A j \in keep : j <= i)

\* the filter of analyze that knows only the capitalised marker
notMusicUpperOnly(seg) == Trim(seg.text) # MusicUpper

\* the filter of analyze: keeps a segment unless it is a music marker
NotMusic(seg) == Trim(seg.text) # MusicUpper /\ Trim(seg.text) # MusicLower

\* text.split(/[-\s]+/).filter(w => w.length > 0).length
CountWords(text) ==
    Cardinality({i \in 1..Len(text) :
        /\ text[i] \notin Separators
        /\ (i = 1 \/ text[i - 1] \in Separators)})

\* getUpcomingSegments without the LOOKAHEAD_SEGMENTS cap on endIndex
upcomingToTheEnd(segments, time) ==
    LET n == Len(segments)
        hits == {i \in 1..n : segments[i].start >= time}
        startIndex == IF hits # {} THEN SetMin(hits) - 1
                      ELSE Max(0, n - LOOKAHEAD_SEGMENTS)
    IN SubSeq(segments, startIndex + 1, n)

\* getUpcomingSegments without the fallback to the last segments
upcomingOrNothing(segments, time) ==
    LET n == Len(segments)
        hits == {i \in 1..n : segments[i].start >= time}
        startIndex == IF hits # {} THEN SetMin(hits) - 1 ELSE n
        endIndex == Min(n, startIndex + LOOKAHEAD_SEGMENTS)
    IN SubSeq(segments, startIndex + 1, endIndex)

getUpcomingSegments(segments, time) ==
    LET n == Len(segments)
        hits == {i \in 1..n : segments[i].start >= time}
        startIndex == IF hits # {} THEN SetMin(hits) - 1
                      ELSE Max(0, n - LOOKAHEAD_SEGMENTS)
        endIndex == Min(n, startIndex + LOOKAHEAD_SEGMENTS)
    IN SubSeq(segments, startIndex + 1, endIndex)

\* effectiveDuration that takes any gap smaller than the raw duration
effectiveDurationAnyGap(segments, i) ==
    LET raw == segments[i].duration
        gapToNext == segments[i + 1].start - segments[i].start
    IN IF i < Len(segments) /\ gapToNext < raw THEN gapToNext ELSE raw

effectiveDuration(segments, i) ==
    LET raw == segments[i].duration
        gapToNext == segments[i + 1].start - segments[i].start
    IN IF i < Len(segments) /\ gapToNext > 0 /\ gapToNext < raw
       THEN gapToNext ELSE raw

RECURSIVE SumWords(_, _)
SumWords(segments, i) ==
    IF i = 0 THEN 0 ELSE SumWords(segments, i - 1) + CountWords(segments[i].text)

RECURSIVE SumDuration(_, _)
SumDuration(segments, i) ==
    IF i = 0 THEN 0 ELSE SumDuration(segments, i - 1) + effectiveDuration(segments, i)

\* calculateWordStats that returns the sum of the durations as it is
wordStatsAsSummed(segments) ==
    IF Len(segments) = 0 THEN [totalWords |-> 0, totalDuration |-> 0]
    ELSE [totalWords |-> SumWords(segments, Len(segments)),
          totalDuration |-> SumDuration(segments, Len(segments))]

calculateWordStats(segments) ==
    IF Len(segments) = 0 THEN [totalWords |-> 0, totalDuration |-> 0]
    ELSE LET w == SumWords(segments, Len(segments))
             d == SumDuration(segments, Len(segments))
         IN IF d <= 0 THEN [totalWords |-> w, totalDuration |-> 1]
            ELSE [totalWords |-> w, totalDuration |-> d]

\* calculateRecommendedSpeed that clamps its result to [MIN_SPEED, MAX_SPEED]
recommendedSpeedClamped(wordsPerSec) ==
    IF wordsPerSec[1] <= 0 THEN One
    ELSE Max(MIN_SPEED, Min(MAX_SPEED,
             SPEED_INCREMENT * RoundDiv(BaselineNum * wordsPerSec[2], wordsPerSec[1])))

\* wordsPerSec is <<words, seconds>>; the result is in thousandths
calculateRecommendedSpeed(wordsPerSec) ==
    IF wordsPerSec[1] <= 0 THEN One
    ELSE SPEED_INCREMENT * RoundDiv(BaselineNum * wordsPerSec[2], wordsPerSec[1])

BaselineResult ==
    [wordsPerSec |-> BASELINE_WORDS_PER_SEC, recommendedSpeed |-> One,
     segmentsAnalyzed |-> 0]

analyze(segments, time) ==
    IF Len(segments) = 0 THEN BaselineResult
    ELSE LET upcoming == SelectSeq(getUpcomingSegments(segments, time), NotMusic)
         IN IF Len(upcoming) = 0 THEN BaselineResult
            ELSE LET stats == calculateWordStats(upcoming)
                     wps == <<stats.totalWords, stats.totalDuration>>
                 IN IF stats.totalDuration = 0 THEN BaselineResult
                    ELSE [wordsPerSec |-> wps,
                          recommendedSpeed |-> calculateRecommendedSpeed(wps),
                          segmentsAnalyzed |-> Len(upcoming)]

(***************************************************************************)
(* The transcripts TranscriptFetcher can return, one per video id          *)
(***************************************************************************)
HelloWorld == <<"h", "e", "l", "l", "o", " ", "w", "o", "r", "l", "d">>
FooBarBaz == <<"f", "o", "o", " ", "b", "a", "r", " ", "b", "a", "z">>
FastTalk == <<"a", " ", "b", "-", "c", " ", "d", " ", "e", " ", "f">>

\* video 1: a slow speaker; video 2: a music intro, then a fast speaker
VideoTranscript(v) ==
    IF v = 1
    THEN << [text |-> HelloWorld, start |-> 0, duration |-> 2],
            [text |-> FooBarBaz, start |-> 2, duration |-> 2] >>
    ELSE << [text |-> MusicUpper, start |-> 0, duration |-> 2],
            [text |-> FastTalk, start |-> 2, duration |-> 2] >>

\* state.transcript holds a reference to the fetched array: the video id the
\* array was fetched for, 0 for null
NoTranscript == 0
NoPace == <<>>
TranscriptOf(ref) == IF ref = 0 THEN <<>> ELSE VideoTranscript(ref)

\* SpeedAnalyzer.analyze on each transcript and sampled time
AnalysisTable ==
    [v \in VideoIds |-> [t \in Times \cup TickTimes \cup ClockTimes |-> analyze(VideoTranscript(v), t)]]
analyzeRef(ref, time) ==
    IF ref = 0 THEN analyze(<<>>, time) ELSE AnalysisTable[ref][time]

(***************************************************************************)
(* SpeedController                                                         *)
(***************************************************************************)
getCurrentTime(p) == IF hasVideo THEN p.time ELSE 0
isVideoPlaying(p) == hasVideo /\ p.playing
isOnVideoPage == url # 0
isAdPlaying(p) == p.ad

\* normalizeSpeed without the clamp to [MIN_SPEED, MAX_SPEED]
normalizeUnclamped(speed) ==
    RoundDiv(RoundDiv(speed, SPEED_INCREMENT) * SPEED_INCREMENT, 10) * 10

\* normalizeSpeed that moves to the step above instead of the nearest one
normalizeToNextStep(speed) ==
    LET clamped == Max(MIN_SPEED, Min(MAX_SPEED, speed))
    IN Min(MAX_SPEED, ((clamped \div SPEED_INCREMENT) + 1) * SPEED_INCREMENT)

normalizeSpeed(speed) ==
    LET clamped == Max(MIN_SPEED, Min(MAX_SPEED, speed))
        stepped == RoundDiv(clamped, SPEED_INCREMENT) * SPEED_INCREMENT
    IN RoundDiv(stepped, 10) * 10

\* SpeedController._currentSpeed is written only while a video element
\* exists (getSpeed, setSpeed) and read only while none exists; the element,
\* once there, stays, so every read finds the initial value
cachedSpeed == One

\* setSpeed that caches and returns the target without looking for the
\* video element
setSpeedUnguarded(speed, rate, cache) ==
    LET target == normalizeSpeed(speed)
    IN [ret |-> target, rate |-> IF hasVideo THEN target ELSE rate,
        cache |-> target, wrote |-> hasVideo]

\* setSpeed that writes the rate whenever a video element exists
setSpeedWithoutDeadBand(speed, rate, cache) ==
    IF ~hasVideo
    THEN [ret |-> cache, rate |-> rate, cache |-> cache, wrote |-> FALSE]
    ELSE LET target == normalizeSpeed(speed)
         IN [ret |-> target, rate |-> target, cache |-> target, wrote |-> TRUE]

\* setSpeed on a resource whose rate is `rate`, with _currentSpeed `cache`
setSpeed(speed, rate, cache) ==
    IF ~hasVideo
    THEN [ret |-> cache, rate |-> rate, cache |-> cache, wrote |-> FALSE]
    ELSE LET target == normalizeSpeed(speed)
         IN IF Abs(rate - target) >= 10
            THEN [ret |-> target, rate |-> target, cache |-> target, wrote |-> TRUE]
            ELSE [ret |-> target, rate |-> rate, cache |-> cache, wrote |-> FALSE]

(***************************************************************************)
(* content.js: session state                                               *)
(***************************************************************************)
FreshState(initialized, videoId, enabled) ==
    [initialized |-> initialized,
     currentVideoId |-> videoId,
     transcript |-> NoTranscript,
     hasTranscript |-> FALSE,
     currentSpeed |-> One,
     speakingPace |-> NoPace,
     lastCalculationVideoTime |-> 0,
     wasAdPlaying |-> FALSE,
     lastVideoTimeBeforeAd |-> 0,
     firstCalcDone |-> FALSE,
     manualSpeedOverride |-> FALSE,
     isEnabled |-> enabled,
     error |-> "null"]

\* the result of a handler's speed-affecting part: the session, the rate,
\* the cache, how performSpeedCalculation ended ("none" when not invoked),
\* whether setSpeed was called and whether the rate was written
Effect(s, rate, cache, calc, called, wrote) ==
    [state |-> s, rate |-> rate, cache |-> cache, calc |-> calc,
     called |-> called, wrote |-> wrote]

NoEffect(s) == Effect(s, playbackRate, cachedSpeed, "none", FALSE, FALSE)
Skipped(s, why) == Effect(s, playbackRate, cachedSpeed, why, FALSE, FALSE)

\* clamp to [1.0, 3.0] and round to 0.05 the product of two thousandths
clampAndRound(product) ==
    LET clamped == Max(MIN_SPEED * 1000, Min(MAX_SPEED * 1000, product))
    IN RoundDiv(clamped * 20, 1000000) * SPEED_INCREMENT

\* the speed performSpeedCalculation aims at
targetSpeedOf(transcript, time, multiplier) ==
    clampAndRound(analyzeRef(transcript, time).recommendedSpeed * multiplier)

\* the calculation that writes recommendedSpeed * targetMultiplier as it is,
\* without the clamp and rounding and not through setSpeed
runCalculationUnbounded(s, multiplier, p) ==
    LET time == getCurrentTime(p)
        analysis == analyzeRef(s.transcript, time)
        raw == (analysis.recommendedSpeed * multiplier) \div One
        s1 == [s EXCEPT !.speakingPace = analysis.wordsPerSec,
                        !.currentSpeed = raw,
                        !.lastCalculationVideoTime = time]
    IN Effect(s1, IF hasVideo THEN raw ELSE playbackRate, cachedSpeed, "ran",
              TRUE, hasVideo)

\* performSpeedCalculation past its guards: analyse, aim, write, record
runCalculation(s, multiplier, p) ==
    LET time == getCurrentTime(p)
        analysis == analyzeRef(s.transcript, time)
        targetSpeed == targetSpeedOf(s.transcript, time, multiplier)
        \* getSpeed refreshes the cache from the resource
        cache1 == IF hasVideo THEN playbackRate ELSE cachedSpeed
        current == cache1
        set == setSpeed(targetSpeed, playbackRate, cache1)
        update == current # targetSpeed \/ s.lastCalculationVideoTime = 0
        s1 == [s EXCEPT !.speakingPace = analysis.wordsPerSec,
                        !.currentSpeed = IF update THEN set.ret ELSE current,
                        !.lastCalculationVideoTime = time]
    IN IF update
       THEN Effect(s1, set.rate, set.cache, "ran", TRUE, set.wrote)
       ELSE Effect(s1, playbackRate, cache1, "ran", FALSE, FALSE)

\* performSpeedCalculation without its isEnabled guard
calculationWhileDisabled(s, multiplier, p) ==
    IF ~s.hasTranscript THEN Skipped(s, "noTranscript")
    ELSE IF s.manualSpeedOverride THEN Skipped(s, "manual")
    ELSE IF isAdPlaying(p) THEN Skipped(s, "ad")
    ELSE runCalculation(s, multiplier, p)

\* performSpeedCalculation without its ad guard
calculationDuringAd(s, multiplier, p) ==
    IF ~s.hasTranscript THEN Skipped(s, "noTranscript")
    ELSE IF ~s.isEnabled THEN Skipped(s, "disabled")
    ELSE IF s.manualSpeedOverride THEN Skipped(s, "manual")
    ELSE runCalculation(s, multiplier, p)

\* performSpeedCalculation without its manual-override guard
calculationDespiteOverride(s, multiplier, p) ==
    IF ~s.hasTranscript THEN Skipped(s, "noTranscript")
    ELSE IF ~s.isEnabled THEN Skipped(s, "disabled")
    ELSE IF isAdPlaying(p) THEN Skipped(s, "ad")
    ELSE runCalculation(s, multiplier, p)

performSpeedCalculation(s, multiplier, p) ==
    IF ~s.hasTranscript THEN Skipped(s, "noTranscript")
    ELSE IF ~s.isEnabled THEN Skipped(s, "disabled")
    ELSE IF s.manualSpeedOverride THEN Skipped(s, "manual")
    ELSE IF isAdPlaying(p) THEN Skipped(s, "ad")
    ELSE runCalculation(s, multiplier, p)

\* PlayerUI.updatePanel(state.speakingPace, state.speakingPace * state.currentSpeed,
\* state.currentSpeed): the arguments, the product as <<words * speed, seconds * 1000>>
updatePanelArgs(s) ==
    <<s.speakingPace,
      <<s.speakingPace[1] * s.currentSpeed, s.speakingPace[2] * One>>,
      s.currentSpeed>>

\* toggle-off and settings-off: SpeedController.setSpeed(1.0); state.currentSpeed = 1.0
resetToOne(s) ==
    LET set == setSpeed(One, playbackRate, cachedSpeed)
    IN Effect([s EXCEPT !.currentSpeed = One], set.rate, set.cache, "none", TRUE, set.wrote)

\* a ratechange event is queued when the rate changes and a listener exists
QueueRateEvent(newRate) ==
    IF listening /\ newRate # playbackRate
    THEN Min(rateEvents + 1, MaxRateEvents) ELSE rateEvents

\* fx names the handler of the last step when that handler touched the
\* session or the rate or invoked performSpeedCalculation ("other" when
\* not), how that invocation ended ("none": not invoked), and whether the
\* session was enabled when the step began
Fx(op, calc) == [op |-> op, calc |-> calc, was |-> state.isEnabled]
OpFx(op) == Fx(op, "none")

\* commit a handler's effect e, done by operation op
Commit(e, op) ==
    /\ state' = e.state
    /\ playbackRate' = e.rate
    /\ rateEvents' = QueueRateEvent(e.rate)
    /\ fx' = IF e.calc = "none" /\ e.state = state /\ e.rate = playbackRate
             THEN OpFx("other") ELSE Fx(op, e.calc)

IdleInit == [pc |-> "idle", videoId |-> 0, fetchId |-> 0]
TimerInit == [pc |-> "timer", videoId |-> 0, fetchId |-> 0]

\* the calls are interchangeable: keep them in one order
PcRank(pc) == CASE pc = "idle" -> 0 [] pc = "timer" -> 1 [] pc = "storage" -> 2
                [] pc = "video" -> 3 [] pc = "fetch" -> 4
Key(r) == PcRank(r.pc) * 100 + r.videoId * 10 + r.fetchId
Ordered(f) == IF Key(f[1]) >= Key(f[2]) THEN f ELSE [i \in Slots |-> f[3 - i]]

\* setTimeout(initialize, INITIAL_DELAY_MS): takes the first free slot
FreeSlots == {i \in Slots : inits[i].pc = "idle"}
scheduleInitialize == Ordered([inits EXCEPT ![SetMin(FreeSlots)] = TimerInit])

\* the player where no specification follows it (the handlers take their
\* readings as inputs): a video at its start, not playing, no ad
PlayerAtStart == [time |-> 0, playing |-> FALSE, ad |-> FALSE]

\* no function has been called directly; _currentSpeed is 1.0
NoCall == [fn |-> "none", arg |-> <<>>, ret |-> <<>>, cache |-> One]

Init ==
    /\ url \in FirstPages
    /\ hasVideo = FALSE
    /\ playbackRate = One
    /\ state = FreshState(FALSE, 0, TRUE)
    /\ checkInterval = 0
    /\ timers = {}
    /\ inits = [i \in Slots |-> IF i = 1 THEN TimerInit ELSE IdleInit]
    /\ listening = FALSE
    /\ uiInjected = FALSE
    /\ rateEvents = 0
    /\ targetMultiplier = One
    /\ storage = [isEnabled |-> "undefined", targetMultiplier |-> 0]
    /\ events = 0
    /\ fx = OpFx("load")
    /\ call = NoCall
    /\ player = PlayerAtStart

(***************************************************************************)
(* content.js: handlers                                                    *)
(***************************************************************************)
\* cleanup that leaves state.initialized alone
cleanupKeepingInitialized(op) ==
    /\ timers' = timers \ {checkInterval}
    /\ checkInterval' = 0
    /\ fx' = OpFx(op)
    /\ UNCHANGED <<state, playbackRate, rateEvents>>

\* clearInterval(checkInterval); checkInterval = null; state.initialized = false
cleanup(op) ==
    /\ timers' = timers \ {checkInterval}
    /\ checkInterval' = 0
    /\ state' = [state EXCEPT !.initialized = FALSE]
    /\ fx' = OpFx(op)
    /\ UNCHANGED <<playbackRate, rateEvents>>

\* startMonitoring without its clearInterval
startMonitoringKeepingOld ==
    LET id == SetMin(TimerIds \ timers)
    IN [timers |-> timers \cup {id}, checkInterval |-> id]

\* the interval timers left running by startMonitoring, and the new handle
startMonitoring ==
    LET kept == IF checkInterval # 0 THEN timers \ {checkInterval} ELSE timers
        id == SetMin(TimerIds \ kept)
    IN [timers |-> kept \cup {id}, checkInterval |-> id]

\* initialize, up to the await of chrome.storage.sync.get
InitStart(i) ==
    /\ inits[i].pc = "timer"
    /\ IF ~isOnVideoPage
       THEN /\ cleanup("other")
            /\ inits' = Ordered([inits EXCEPT ![i] = IdleInit])
       ELSE /\ inits' = Ordered([inits EXCEPT ![i] =
                  IF url = state.currentVideoId /\ state.initialized
                  THEN IdleInit
                  ELSE [pc |-> "storage", videoId |-> url, fetchId |-> 0]])
            /\ fx' = OpFx("other")
            /\ UNCHANGED <<state, checkInterval, timers, playbackRate, rateEvents>>
    /\ UNCHANGED <<url, hasVideo, listening, uiInjected, targetMultiplier, storage>>
    /\ UNCHANGED <<events, call, player>>

\* preservedEnabled that ignores the saved setting
enabledOfPreviousSession == state.isEnabled

preservedEnabled ==
    IF storage.isEnabled # "undefined" THEN storage.isEnabled = "true"
    ELSE state.isEnabled

\* initialize, from the saved settings to the first await that suspends:
\* the state reset, then waitForVideo's first check and, when the video is
\* ready, the call of fetchTranscript (which reads the video id of the URL)
InitReset(i) ==
    /\ inits[i].pc = "storage"
    /\ targetMultiplier' = IF storage.targetMultiplier # 0
                           THEN storage.targetMultiplier ELSE targetMultiplier
    /\ state' = FreshState(TRUE, inits[i].videoId, preservedEnabled)
    /\ inits' = Ordered([inits EXCEPT ![i] =
           IF hasVideo THEN [@ EXCEPT !.pc = "fetch", !.fetchId = url]
           ELSE [@ EXCEPT !.pc = "video"]])
    /\ fx' = OpFx("initReset")
    /\ UNCHANGED <<url, hasVideo, playbackRate, checkInterval, timers,
                   listening, uiInjected, rateEvents, storage>>
    /\ UNCHANGED <<events, call, player>>

\* waitForVideo: the poll that finds the video ready
InitVideoReady(i) ==
    /\ inits[i].pc = "video"
    /\ hasVideo
    /\ inits' = Ordered([inits EXCEPT ![i] = [@ EXCEPT !.pc = "fetch", !.fetchId = url]])
    /\ fx' = OpFx("other")
    /\ UNCHANGED <<url, hasVideo, playbackRate, state, checkInterval,
                   timers, listening, uiInjected, rateEvents, targetMultiplier,
                   storage>>
    /\ UNCHANGED <<events, call, player>>

\* waitForVideo: a poll that finds no ready video and re-arms itself with
\* setTimeout(check, 500); nothing counts the polls
InitVideoPoll(i) ==
    /\ inits[i].pc = "video"
    /\ ~hasVideo
    /\ UNCHANGED vars

\* what fetchTranscript can resolve to for the video id it read
FetchResults(fetchId) ==
    {NoTranscript} \cup (IF fetchId # 0 THEN {fetchId} ELSE {})

\* the same without the assignment of firstCalcDone
afterFetchWithoutMark(s, transcript, p) ==
    LET s1 == [s EXCEPT !.transcript = transcript,
                        !.hasTranscript = Len(TranscriptOf(transcript)) > 0]
    IN IF s1.hasTranscript
       THEN performSpeedCalculation(s1, targetMultiplier, p)
       ELSE NoEffect([s1 EXCEPT !.error = "No transcript available"])

\* initialize, from the resolution of fetchTranscript to the calculation
afterFetch(s, transcript, p) ==
    LET s1 == [s EXCEPT !.transcript = transcript,
                        !.hasTranscript = Len(TranscriptOf(transcript)) > 0]
    IN IF s1.hasTranscript
       THEN LET e == performSpeedCalculation(s1, targetMultiplier, p)
            IN [e EXCEPT !.state = [e.state EXCEPT !.firstCalcDone = TRUE]]
       ELSE NoEffect([s1 EXCEPT !.error = "No transcript available"])

\* ... and on to startMonitoring, setupSpeedChangeListener, setupPlayerUI
InitFetched(i) ==
    /\ inits[i].pc = "fetch"
    /\ \E transcript \in FetchResults(inits[i].fetchId), p \in CalcProbes :
           Commit(afterFetch(state, transcript, p), "initFetched")
    /\ timers' = startMonitoring.timers
    /\ checkInterval' = startMonitoring.checkInterval
    /\ listening' = (listening \/ hasVideo)
    /\ uiInjected' = TRUE
    /\ inits' = Ordered([inits EXCEPT ![i] = IdleInit])
    /\ UNCHANGED <<url, hasVideo, targetMultiplier, storage>>
    /\ UNCHANGED <<events, call, player>>

\* the body of the setInterval callback, when the page is a watch page
\* the ad branch that sets the flag but takes no snapshot of the time
adTickWithoutSnapshot(s, p) == NoEffect([s EXCEPT !.wasAdPlaying = TRUE])

\* the callback while an ad is detected
adTick(s, p) ==
    NoEffect([s EXCEPT !.wasAdPlaying = TRUE,
                       !.lastVideoTimeBeforeAd = getCurrentTime(p)])

\* the resume branch that recalculates only while the video is playing
resumeTickWhenPlaying(s, p) ==
    LET s1 == [s EXCEPT !.wasAdPlaying = FALSE, !.lastVideoTimeBeforeAd = 0]
        e == IF isVideoPlaying(p) THEN performSpeedCalculation(s1, targetMultiplier, p)
             ELSE NoEffect(s1)
    IN [e EXCEPT !.state = [e.state EXCEPT !.firstCalcDone = TRUE]]

\* the callback when the ad has just ended, or on the first tick that finds
\* the video past its start before any calculation
resumeTick(s, p) ==
    LET e == performSpeedCalculation(
                 [s EXCEPT !.wasAdPlaying = FALSE, !.lastVideoTimeBeforeAd = 0],
                 targetMultiplier, p)
    IN [e EXCEPT !.state = [e.state EXCEPT !.firstCalcDone = TRUE]]

\* the steady branch that waits until the interval has been exceeded
steadyTickPastInterval(s, p) ==
    IF ~s.hasTranscript \/ ~isVideoPlaying(p)
    THEN NoEffect(s)
    ELSE LET timeSinceLastCalc == getCurrentTime(p) - s.lastCalculationVideoTime
         IN IF timeSinceLastCalc > RECALC_INTERVAL_SECONDS \/ timeSinceLastCalc < -2
            THEN performSpeedCalculation(s, targetMultiplier, p)
            ELSE NoEffect(s)

\* the steady branch that takes any backward move for a seek
steadyTickAnyBackward(s, p) ==
    IF ~s.hasTranscript \/ ~isVideoPlaying(p)
    THEN NoEffect(s)
    ELSE LET timeSinceLastCalc == getCurrentTime(p) - s.lastCalculationVideoTime
         IN IF timeSinceLastCalc >= RECALC_INTERVAL_SECONDS \/ timeSinceLastCalc < 0
            THEN performSpeedCalculation(s, targetMultiplier, p)
            ELSE NoEffect(s)

\* the callback otherwise
steadyTick(s, p) ==
    IF ~s.hasTranscript \/ ~isVideoPlaying(p)
    THEN NoEffect(s)
    ELSE LET timeSinceLastCalc == getCurrentTime(p) - s.lastCalculationVideoTime
         IN IF timeSinceLastCalc >= RECALC_INTERVAL_SECONDS \/ timeSinceLastCalc < -2
            THEN performSpeedCalculation(s, targetMultiplier, p)
            ELSE NoEffect(s)

tick(s, p) ==
    IF isAdPlaying(p) THEN adTick(s, p)
    ELSE IF s.wasAdPlaying \/ (s.firstCalcDone = FALSE /\ getCurrentTime(p) > 0)
    THEN resumeTick(s, p)
    ELSE steadyTick(s, p)

Tick ==
    /\ timers # {}
    /\ IF ~isOnVideoPage
       THEN cleanup("other")
       ELSE /\ \E p \in Probes : Commit(tick(state, p), "tick")
            /\ UNCHANGED <<checkInterval, timers>>
    /\ UNCHANGED <<url, hasVideo, inits, listening, uiInjected, targetMultiplier,
                   storage>>
    /\ UNCHANGED <<events, call, player>>

\* the same callback, reading the clock second by second; fx tells the
\* ticks that begin with the ad flag set from the others
PreciseTick ==
    /\ timers # {}
    /\ IF ~isOnVideoPage
       THEN cleanup("other")
       ELSE /\ \E p \in TickProbes :
                   Commit(tick(state, p),
                          IF state.wasAdPlaying THEN "tickAfterAd" ELSE "tick")
            /\ UNCHANGED <<checkInterval, timers>>
    /\ UNCHANGED <<url, hasVideo, inits, listening, uiInjected, targetMultiplier,
                   storage>>
    /\ UNCHANGED <<events, call, player>>

\* the ratechange listener without its firstCalcDone condition
rateChangeBeforeFirstCalc(s) ==
    IF s.currentSpeed # playbackRate
    THEN [s EXCEPT !.manualSpeedOverride = TRUE, !.currentSpeed = playbackRate]
    ELSE s

\* the ratechange listener of setupSpeedChangeListener
onRateChange(s) ==
    IF s.currentSpeed # playbackRate /\ s.firstCalcDone
    THEN [s EXCEPT !.manualSpeedOverride = TRUE, !.currentSpeed = playbackRate]
    ELSE s

RateChange ==
    /\ rateEvents > 0
    /\ rateEvents' = rateEvents - 1
    /\ state' = onRateChange(state)
    /\ fx' = OpFx("other")
    /\ UNCHANGED <<url, hasVideo, playbackRate, checkInterval, timers,
                   inits, listening, uiInjected, targetMultiplier, storage>>
    /\ UNCHANGED <<events, call, player>>

BoolStr(b) == IF b THEN "true" ELSE "false"

\* onMultiplierChange without its auto-enable
multiplierChangeAsIs(s, multiplier, p) == performSpeedCalculation(s, multiplier, p)

\* PlayerUI slider input, then PlayerUI.onMultiplierChange
onMultiplierChange(s, multiplier, p) ==
    performSpeedCalculation([s EXCEPT !.isEnabled = TRUE], multiplier, p)

SliderChange(m) ==
    /\ events < MaxEvents
    /\ events' = events + 1
    /\ UNCHANGED <<call, player>>
    /\ uiInjected
    /\ targetMultiplier' = m
    /\ storage' = [isEnabled |-> "true", targetMultiplier |-> m]
    /\ \E p \in CalcProbes : Commit(onMultiplierChange(state, m, p), "slider")
    /\ UNCHANGED <<url, hasVideo, checkInterval, timers, inits, listening,
                   uiInjected>>

\* PlayerUI.onToggle
onToggle(s, p) ==
    LET s1 == [s EXCEPT !.isEnabled = ~s.isEnabled]
    IN IF s1.isEnabled THEN performSpeedCalculation(s1, targetMultiplier, p)
       ELSE resetToOne(s1)

Toggle ==
    /\ events < MaxEvents
    /\ events' = events + 1
    /\ UNCHANGED <<call, player>>
    /\ uiInjected
    /\ storage' = [storage EXCEPT !.isEnabled = BoolStr(~state.isEnabled)]
    /\ \E p \in CalcProbes : Commit(onToggle(state, p), "toggle")
    /\ UNCHANGED <<url, hasVideo, checkInterval, timers, inits, listening,
                   uiInjected, targetMultiplier>>

\* the onMessage handler for action 'updateSettings'
updateSettings(s, isEnabled, multiplier, p) ==
    LET s1 == [s EXCEPT !.isEnabled = isEnabled]
    IN IF s1.isEnabled THEN performSpeedCalculation(s1, multiplier, p)
       ELSE resetToOne(s1)

\* popup: saveAndSync stores both settings and, when the tab shows a watch
\* page, sends them to the content script
saveAndSync(isEnabled, multiplier, op) ==
    /\ storage' = [isEnabled |-> BoolStr(isEnabled), targetMultiplier |-> multiplier]
    /\ IF isOnVideoPage
       THEN /\ targetMultiplier' = multiplier
            /\ \E p \in CalcProbes :
                   Commit(updateSettings(state, isEnabled, multiplier, p), op)
       ELSE /\ fx' = OpFx("other")
            /\ UNCHANGED <<targetMultiplier, state, playbackRate, rateEvents>>

\* the popup's currentState, as loadState reads it from storage
popupEnabled == storage.isEnabled # "false"
popupMultiplier == IF storage.targetMultiplier # 0 THEN storage.targetMultiplier ELSE One

PopupToggle ==
    /\ events < MaxEvents
    /\ events' = events + 1
    /\ UNCHANGED <<call, player>>
    /\ saveAndSync(~popupEnabled, popupMultiplier, "popupToggle")
    /\ UNCHANGED <<url, hasVideo, checkInterval, timers, inits, listening,
                   uiInjected>>

\* popup slider: the listener enables, then saveAndSync
PopupSlider(m) ==
    /\ events < MaxEvents
    /\ events' = events + 1
    /\ UNCHANGED <<call, player>>
    /\ saveAndSync(TRUE, m, "popupSlider")
    /\ UNCHANGED <<url, hasVideo, checkInterval, timers, inits, listening,
                   uiInjected>>

\* immediateSpeedReset that leaves the rate alone
noSpeedReset == NoEffect(state)

\* immediateSpeedReset: video.playbackRate = 1.0 when a video element exists
immediateSpeedReset ==
    IF hasVideo THEN Effect(state, One, cachedSpeed, "none", FALSE, TRUE)
    ELSE NoEffect(state)

\* immediateSpeedReset(); setTimeout(initialize, CONFIG.INITIAL_DELAY_MS)
navigationDetected ==
    /\ events < MaxEvents
    /\ events' = events + 1
    /\ UNCHANGED <<call, player>>
    /\ FreeSlots # {}
    /\ Commit(immediateSpeedReset, "nav")
    /\ inits' = scheduleInitialize
    /\ UNCHANGED <<hasVideo, checkInterval, timers, listening, uiInjected,
                   targetMultiplier, storage>>

\* the page moves to another URL and the MutationObserver callback sees
\* location.href differ from lastUrl
MutationObserved(u) ==
    /\ u # url
    /\ url' = u
    /\ navigationDetected

PopState ==
    /\ navigationDetected
    /\ UNCHANGED url

YtNavigateFinish ==
    /\ navigationDetected
    /\ UNCHANGED url

(***************************************************************************)
(* The player and the user outside the extension                           *)
(***************************************************************************)
VideoAppears ==
    /\ ~hasVideo
    /\ hasVideo' = TRUE
    /\ fx' = OpFx("other")
    /\ UNCHANGED <<url, playbackRate, state, checkInterval, timers,
                   inits, listening, uiInjected, rateEvents, targetMultiplier,
                   storage>>
    /\ UNCHANGED <<events, call, player>>

\* the user (YouTube's own speed menu) or another extension sets the rate
ExternalRateChange(r) ==
    /\ events < MaxEvents
    /\ events' = events + 1
    /\ UNCHANGED <<call, player>>
    /\ hasVideo
    /\ r # playbackRate
    /\ playbackRate' = r
    /\ rateEvents' = QueueRateEvent(r)
    /\ fx' = OpFx("other")
    /\ UNCHANGED <<url, hasVideo, state, checkInterval, timers, inits,
                   listening, uiInjected, targetMultiplier, storage>>

Extension ==
    \/ \E i \in Slots : InitStart(i)
    \/ \E i \in Slots : InitReset(i)
    \/ \E i \in Slots : InitVideoPoll(i)
    \/ \E i \in Slots : InitVideoReady(i)
    \/ \E i \in Slots : InitFetched(i)
    \/ Tick
    \/ RateChange
    \/ \E m \in SliderValues : SliderChange(m)
    \/ Toggle
    \/ PopupToggle
    \/ \E m \in SliderValues : PopupSlider(m)
    \/ \E u \in Urls : MutationObserved(u)
    \/ PopState
    \/ YtNavigateFinish
    \/ VideoAppears

Next ==
    \/ Extension
    \/ \E r \in ExternalRates : ExternalRateChange(r)

Spec == Init /\ [][Next]_vars

\* what the browser is bound to run sooner or later: expired timers and
\* intervals, storage callbacks, the fetch's resolution, queued events.  The
\* page, the player and the user are bound to nothing.
\* (A poll of waitForVideo that finds nothing changes nothing, so there is
\* no progress to demand of it.)
Scheduled ==
    /\ WF_vars(\E i \in Slots : InitStart(i))
    /\ WF_vars(\E i \in Slots : InitReset(i))
    /\ WF_vars(\E i \in Slots : InitVideoReady(i))
    /\ WF_vars(\E i \in Slots : InitFetched(i))
    /\ WF_vars(Tick)
    /\ WF_vars(RateChange)

SpecScheduled == Init /\ [][Extension]_vars /\ Scheduled

\* the extension on a page where nobody else touches the playback rate
SpecNoExternal == Init /\ [][Extension]_vars

(***************************************************************************)
(* The monitoring tick, second by second                                   *)
(*                                                                         *)
(* SpecTicker starts where initialize is about to get its transcript on a  *)
(* watch page with a ready video, and then lets the interval callback run  *)
(* with the clock readings of TickTimes, while the rate may be changed     *)
(* from outside.                                                           *)
(***************************************************************************)
TickerInit ==
    /\ url \in VideoIds
    /\ hasVideo = TRUE
    /\ playbackRate = One
    /\ \E enabled \in BOOLEAN : state = FreshState(TRUE, url, enabled)
    /\ checkInterval = 0
    /\ timers = {}
    /\ inits = [i \in Slots |-> IF i = 1
                                THEN [pc |-> "fetch", videoId |-> url, fetchId |-> url]
                                ELSE IdleInit]
    /\ listening = FALSE
    /\ uiInjected = FALSE
    /\ rateEvents = 0
    /\ targetMultiplier \in {One} \cup SliderValues
    /\ storage = [isEnabled |-> "undefined", targetMultiplier |-> 0]
    /\ events = 0
    /\ fx = OpFx("initReset")
    /\ call = NoCall
    /\ player = PlayerAtStart

\* rates set from outside: on the 0.05 grid, and 0.004 off it
TickerRates == ExternalRates \cup {1004}

TickerNext ==
    \/ \E i \in Slots : InitFetched(i)
    \/ PreciseTick
    \/ RateChange
    \/ \E r \in TickerRates : ExternalRateChange(r)

SpecTicker == TickerInit /\ [][TickerNext]_vars

(***************************************************************************)
(* The monitoring tick while the video plays                               *)
(*                                                                         *)
(* SpecPlayback follows the player: `player` holds what getCurrentTime,    *)
(* isVideoPlaying and isAdPlaying return at present.  The video advances   *)
(* second by second while it plays, the user pauses and resumes, ads come  *)
(* and go, the rate may be changed from outside; initialize gets its       *)
(* transcript and the interval callback reads the player as it is.  The    *)
(* browser runs the interval callback again and again (PlaybackFair); the  *)
(* player and the user are bound to nothing.                               *)
(***************************************************************************)
PlaybackInit ==
    /\ url = SetMin(VideoIds)
    /\ hasVideo = TRUE
    /\ playbackRate = One
    /\ \E enabled \in BOOLEAN : state = FreshState(TRUE, url, enabled)
    /\ checkInterval = 0
    /\ timers = {}
    /\ inits = [i \in Slots |-> IF i = 1
                                THEN [pc |-> "fetch", videoId |-> url, fetchId |-> url]
                                ELSE IdleInit]
    /\ listening = FALSE
    /\ uiInjected = FALSE
    /\ rateEvents = 0
    /\ targetMultiplier = One
    /\ storage = [isEnabled |-> "undefined", targetMultiplier |-> 0]
    /\ events = 0
    /\ fx = OpFx("initReset")
    /\ call = NoCall
    /\ player = PlayerAtStart

PlayerFrame ==
    /\ fx' = OpFx("other")
    /\ UNCHANGED <<url, hasVideo, playbackRate, state, checkInterval, timers,
                   inits, listening, uiInjected, rateEvents, targetMultiplier,
                   storage, events, call>>

\* one more second of the video has been played
VideoAdvances ==
    /\ player.playing /\ ~player.ad
    /\ player.time < MaxClock
    /\ player' = [player EXCEPT !.time = @ + 1]
    /\ PlayerFrame

\* the video starts or resumes, or is paused
PlayPause ==
    /\ player' = [player EXCEPT !.playing = ~@]
    /\ PlayerFrame

\* an ad begins, at one of the ad breaks of the video, or ends
AdStartsOrEnds ==
    /\ player.ad \/ player.time \in AdBreaks
    /\ player' = [player EXCEPT !.ad = ~@]
    /\ PlayerFrame

\* initialize, from the resolution of fetchTranscript on, reading the player
InitFetchedWatched(i) ==
    /\ inits[i].pc = "fetch"
    /\ \E transcript \in FetchResults(inits[i].fetchId) :
           Commit(afterFetch(state, transcript, player), "initFetched")
    /\ timers' = startMonitoring.timers
    /\ checkInterval' = startMonitoring.checkInterval
    /\ listening' = (listening \/ hasVideo)
    /\ uiInjected' = TRUE
    /\ inits' = Ordered([inits EXCEPT ![i] = IdleInit])
    /\ UNCHANGED <<url, hasVideo, targetMultiplier, storage>>
    /\ UNCHANGED <<events, call, player>>

\* commit a handler's effect e, done by operation op; fx records every run
CommitEveryRun(e, op) ==
    /\ state' = e.state
    /\ playbackRate' = e.rate
    /\ rateEvents' = QueueRateEvent(e.rate)
    /\ fx' = Fx(op, e.calc)

\* the setInterval callback, reading the player
PlaybackTick ==
    /\ timers # {}
    /\ IF ~isOnVideoPage
       THEN cleanup("other")
       ELSE /\ CommitEveryRun(tick(state, player), "tick")
            /\ UNCHANGED <<checkInterval, timers>>
    /\ UNCHANGED <<url, hasVideo, inits, listening, uiInjected, targetMultiplier,
                   storage>>
    /\ UNCHANGED <<events, call, player>>

PlaybackNext ==
    \/ \E i \in Slots : InitFetchedWatched(i)
    \/ PlaybackTick
    \/ RateChange
    \/ \E r \in ExternalRates : ExternalRateChange(r)
    \/ VideoAdvances
    \/ PlayPause
    \/ AdStartsOrEnds

\* setInterval(..., CHECK_INTERVAL_MS): the callback keeps being run
PlaybackFair == WF_vars(PlaybackTick)

SpecPlayback == PlaybackInit /\ [][PlaybackNext]_vars /\ PlaybackFair

(***************************************************************************)
(* SpeedController and SpeedAnalyzer called directly                       *)
(*                                                                         *)
(* SpecLibrary exercises the two helper objects on their own, outside the  *)
(* content script: normalizeSpeed, analyze and getUpcomingSegments on      *)
(* inputs drawn by the initial state, setSpeed and getSpeed on a player    *)
(* whose video element comes and goes and whose rate anybody may set.      *)
(* `call` holds the function, its arguments, the values returned so far    *)
(* and SpeedController._currentSpeed.                                      *)
(***************************************************************************)
\* rates a video element can have, on and off the 0.05 grid
BenchRates == {250, 1000, 1004, 1009, 1010, 1950, 3000}
\* speeds requested of setSpeed
BenchSpeeds == {500, 1000, 1020, 1950, 3500}
\* inputs of normalizeSpeed: every thousandth from -MaxSpeedArg to MaxSpeedArg
SpeedArgs == (0 - MaxSpeedArg)..MaxSpeedArg

Blank == <<" ", " ">>
Dashes == <<"-", "-">>
Shapes == {"talk", "slow", "overlap", "stacked", "swapped", "music", "jingle", "blank",
           "instant", "dashes"}

\* segment i of a transcript of the given shape
\*   talk:    hello world / foo bar baz in turn, 2 s each, back to back
\*   slow:    hello world every 4 s
\*   overlap: captions of 3 s that start every second
\*   stacked: captions of 3 s in pairs that start together, a pair every 2 s
\*   swapped: captions of 2 s, each pair of neighbours in the wrong order
\*   music:   a [Music] / [music] marker before every spoken caption
\*   jingle:  nothing but [Music] / [music] markers
\*   blank:   captions of whitespace with no duration
\*   instant: hello world every second, each caption with no duration
\*   dashes:  captions that are nothing but hyphens, 2 s each
BenchSegment(shape, i) ==
    CASE shape = "talk" ->
           [text |-> IF i % 2 = 1 THEN HelloWorld ELSE FooBarBaz,
            start |-> 2 * (i - 1), duration |-> 2]
      [] shape = "slow" ->
           [text |-> HelloWorld, start |-> 4 * (i - 1), duration |-> 4]
      [] shape = "overlap" ->
           [text |-> FastTalk, start |-> i - 1, duration |-> 3]
      [] shape = "stacked" ->
           [text |-> FooBarBaz, start |-> 2 * ((i - 1) \div 2), duration |-> 3]
      [] shape = "swapped" ->
           [text |-> HelloWorld,
            start |-> IF i % 2 = 1 THEN 2 * i ELSE 2 * (i - 2), duration |-> 2]
      [] shape = "music" ->
           [text |-> IF i % 2 = 0 THEN FooBarBaz
                     ELSE IF i % 4 = 1 THEN MusicUpper ELSE MusicLower,
            start |-> 2 * (i - 1), duration |-> 2]
      [] shape = "jingle" ->
           [text |-> IF i % 2 = 1 THEN MusicUpper ELSE MusicLower,
            start |-> 2 * (i - 1), duration |-> 2]
      [] shape = "blank" ->
           [text |-> Blank, start |-> i - 1, duration |-> 0]
      [] shape = "instant" ->
           [text |-> HelloWorld, start |-> i - 1, duration |-> 0]
      [] shape = "dashes" ->
           [text |-> Dashes, start |-> 2 * (i - 1), duration |-> 2]

BenchTranscript(shape, n) == [i \in 1..n |-> BenchSegment(shape, i)]

AnalyzerArgs == Shapes \X (1..MaxSegments) \X (0..MaxArgTime)
ArgTranscript(arg) == BenchTranscript(arg[1], arg[2])

\* what calculateRecommendedSpeed can return and what the slider can be set to
RecommendedSpeeds == {r \in SPEED_INCREMENT..MaxRecommended : r % SPEED_INCREMENT = 0}
SliderSteps == {m \in SLIDER_MIN..SLIDER_MAX : m % SLIDER_STEP = 0}

\* Rounding in binary floating point.  A product of two thousandths is kept
\* in millionths.  Away from a tie Math.round gives the nearest step; at a
\* tie (a product that is an odd multiple of 0.025) the double that stands
\* for the product, multiplied by 20 or divided by 0.05, falls on either
\* side of .5, so either neighbouring step can come out.
Million == One * One
StepInMillionths == SPEED_INCREMENT * One
nearestSteps(clamped) ==
    IF clamped % StepInMillionths = StepInMillionths \div 2
    THEN {(clamped \div StepInMillionths) * SPEED_INCREMENT,
          (clamped \div StepInMillionths + 1) * SPEED_INCREMENT}
    ELSE {RoundDiv(clamped, StepInMillionths) * SPEED_INCREMENT}

\* the quantization that forgets to clamp first
nearestStepsUnclamped(product) == nearestSteps(product)

\* performSpeedCalculation: Math.max(1.0, Math.min(3.0, targetSpeed)), then
\* Math.round(targetSpeed * 20) / 20
clampAndRoundDouble(product) ==
    nearestSteps(Max(MIN_SPEED * One, Min(MAX_SPEED * One, product)))

\* normalizeSpeed on the same product: clamp, Math.round(x / 0.05) * 0.05,
\* then Math.round(x * 100) / 100, which leaves a multiple of 0.05 alone
normalizeSpeedDouble(product) ==
    {RoundDiv(stepped, 10) * 10 :
        stepped \in nearestSteps(Max(MIN_SPEED * One, Min(MAX_SPEED * One, product)))}

Pending(fn, arg) == [fn |-> fn, arg |-> arg, ret |-> <<>>, cache |-> One]

PendingCalls ==
    {Pending("normalizeSpeed", <<x>>) : x \in SpeedArgs}
        \cup {Pending("analyze", a) : a \in AnalyzerArgs}
        \cup {Pending("getUpcomingSegments", a) : a \in AnalyzerArgs}
        \cup {Pending("clampAndRound", a) : a \in RecommendedSpeeds \X SliderSteps}

\* SpeedController.getSpeed on a resource whose rate is `rate`
getSpeed(rate, cache) ==
    IF hasVideo THEN [ret |-> rate, cache |-> rate]
    ELSE [ret |-> cache, cache |-> cache]

LibraryInit ==
    /\ url = 0
    /\ state = FreshState(FALSE, 0, TRUE)
    /\ checkInterval = 0
    /\ timers = {}
    /\ inits = [i \in Slots |-> IdleInit]
    /\ listening = FALSE
    /\ uiInjected = FALSE
    /\ rateEvents = 0
    /\ targetMultiplier = One
    /\ storage = [isEnabled |-> "undefined", targetMultiplier |-> 0]
    /\ events = 0
    /\ fx = OpFx("load")
    /\ \/ /\ call = NoCall
          /\ hasVideo \in BOOLEAN
          /\ playbackRate \in BenchRates
       \/ /\ call \in PendingCalls
          /\ hasVideo = FALSE
          /\ playbackRate = One
    /\ player = PlayerAtStart

LibraryFrame ==
    UNCHANGED <<url, state, checkInterval, timers, inits, listening,
                uiInjected, rateEvents, targetMultiplier, storage, events, fx,
                player>>

ControllerInUse == call.fn \in {"none", "setSpeed", "getSpeed"}

\* normalizeSpeed(x), then normalizeSpeed of what it returned
CallNormalizeSpeed ==
    /\ call.fn = "normalizeSpeed"
    /\ Len(call.ret) < 2
    /\ LET x == IF call.ret = <<>> THEN call.arg[1] ELSE call.ret[Len(call.ret)]
       IN call' = [call EXCEPT !.ret = Append(@, normalizeSpeed(x))]
    /\ UNCHANGED <<hasVideo, playbackRate>>
    /\ LibraryFrame

CallAnalyze ==
    /\ call.fn = "analyze"
    /\ call.ret = <<>>
    /\ call' = [call EXCEPT !.ret = <<analyze(ArgTranscript(call.arg), call.arg[3])>>]
    /\ UNCHANGED <<hasVideo, playbackRate>>
    /\ LibraryFrame

CallGetUpcomingSegments ==
    /\ call.fn = "getUpcomingSegments"
    /\ call.ret = <<>>
    /\ call' = [call EXCEPT
                   !.ret = <<getUpcomingSegments(ArgTranscript(call.arg), call.arg[3])>>]
    /\ UNCHANGED <<hasVideo, playbackRate>>
    /\ LibraryFrame

\* recommendedSpeed * targetMultiplier through the clamp and rounding of
\* performSpeedCalculation, through normalizeSpeed, and the former's result
\* through normalizeSpeed as setSpeed does
CallClampAndRound ==
    /\ call.fn = "clampAndRound"
    /\ call.ret = <<>>
    /\ \E target \in clampAndRoundDouble(call.arg[1] * call.arg[2]),
          normalized \in normalizeSpeedDouble(call.arg[1] * call.arg[2]) :
          \E renormalized \in normalizeSpeedDouble(target * One) :
              call' = [call EXCEPT !.ret = <<target, normalized, renormalized>>]
    /\ UNCHANGED <<hasVideo, playbackRate>>
    /\ LibraryFrame

CallSetSpeed(x) ==
    /\ ControllerInUse
    /\ LET r == setSpeed(x, playbackRate, call.cache)
       IN /\ playbackRate' = r.rate
          /\ call' = [fn |-> "setSpeed", arg |-> <<x>>, ret |-> <<r.ret>>,
                      cache |-> r.cache]
    /\ UNCHANGED hasVideo
    /\ LibraryFrame

CallGetSpeed ==
    /\ ControllerInUse
    /\ LET r == getSpeed(playbackRate, call.cache)
       IN call' = [fn |-> "getSpeed", arg |-> <<>>, ret |-> <<r.ret>>,
                   cache |-> r.cache]
    /\ UNCHANGED <<hasVideo, playbackRate>>
    /\ LibraryFrame

\* the page inserts a video element playing at rate r
ElementAppears(r) ==
    /\ ControllerInUse
    /\ ~hasVideo
    /\ hasVideo' = TRUE
    /\ playbackRate' = r
    /\ UNCHANGED call
    /\ LibraryFrame

\* the page removes the video element
ElementRemoved ==
    /\ ControllerInUse
    /\ hasVideo
    /\ hasVideo' = FALSE
    /\ UNCHANGED <<playbackRate, call>>
    /\ LibraryFrame

\* the user or another extension sets the rate of the element
RateSetOutside(r) ==
    /\ ControllerInUse
    /\ hasVideo
    /\ r # playbackRate
    /\ playbackRate' = r
    /\ UNCHANGED <<hasVideo, call>>
    /\ LibraryFrame

LibraryNext ==
    \/ CallNormalizeSpeed
    \/ CallAnalyze
    \/ CallGetUpcomingSegments
    \/ CallClampAndRound
    \/ \E x \in BenchSpeeds : CallSetSpeed(x)
    \/ CallGetSpeed
    \/ \E r \in BenchRates : ElementAppears(r)
    \/ ElementRemoved
    \/ \E r \in BenchRates : RateSetOutside(r)

SpecLibrary == LibraryInit /\ [][LibraryNext]_vars



(***************************************************************************)
(* Properties                                                              *)
(***************************************************************************)
Multipliers == {One} \cup SliderValues
\* a step taken by one of the three navigation listeners
NavigationStep == (\E u \in Urls : MutationObserved(u)) \/ PopState \/ YtNavigateFinish
\* a rate change made from outside the extension
ExternalStep == \E r \in ExternalRates : ExternalRateChange(r)
\* initialize() calls scheduled and not yet started
PendingTimers == Cardinality({i \in Slots : inits[i].pc = "timer"})

\* C1: performSpeedCalculation, invoked while manualSpeedOverride is true, or
\* while an ad is detected, or while isEnabled is false, or while there is no
\* transcript, does not call setSpeed, does not write the playback rate and
\* leaves every session field unchanged.
C1_GuardedCalculationIsNoOp ==
    \A p \in Probes, m \in Multipliers :
        LET e == performSpeedCalculation(state, m, p)
        IN (state.manualSpeedOverride \/ isAdPlaying(p) \/ ~state.isEnabled
                \/ ~state.hasTranscript)
           => /\ ~e.called
              /\ ~e.wrote
              /\ e.rate = playbackRate
              /\ e.state = state

\* performSpeedCalculation has just been invoked during an ad, on an enabled
\* session with a transcript and no override
C1_Witness ==
    /\ fx.calc = "ad"
    /\ state.hasTranscript /\ state.isEnabled /\ ~state.manualSpeedOverride

\* C2: once manualSpeedOverride is true, no monitoring tick (whatever branch
\* it takes) calls setSpeed or changes the playback rate, and the override
\* stays true across every tick and every rate-change notification.
C2_OverrideSilencesTicks ==
    state.manualSpeedOverride =>
        /\ \A p \in Probes :
               LET e == tick(state, p)
               IN /\ ~e.called
                  /\ ~e.wrote
                  /\ e.rate = playbackRate
                  /\ e.state.manualSpeedOverride
        /\ onRateChange(state).manualSpeedOverride

\* a tick has just asked for a calculation under the override
C2_Witness ==
    /\ fx.op = "tick"
    /\ fx.calc = "manual"
    /\ state.manualSpeedOverride
    /\ hasVideo /\ playbackRate # One

\* C3: moving the slider or pressing the toggle while manualSpeedOverride is
\* true clears the override and, when the session is then enabled, triggers
\* a recalculation that runs.
C3_ControlClearsOverride ==
    [][ ((\E m \in SliderValues : SliderChange(m)) \/ Toggle)
        /\ state.manualSpeedOverride
        => /\ ~state'.manualSpeedOverride
           /\ (state'.isEnabled /\ state'.hasTranscript => fx'.calc \in {"ran", "ad"})
      ]_vars

\* C4: every navigation signal sets the playback rate to 1.0 in the step that
\* detects it, and the initialize it schedules has not run by then: it is
\* left pending and the session is untouched.
C4_NavigationResetsAtOnce ==
    [][ NavigationStep
        => /\ hasVideo => playbackRate' = One
           /\ PendingTimers' = PendingTimers + 1
           /\ state' = state
      ]_vars

\* a navigation signal has just brought the rate of a sped-up video to 1.0,
\* with its initialize still pending
C4_Witness ==
    /\ fx.op = "nav"
    /\ hasVideo /\ playbackRate = One
    /\ state.currentSpeed # One
    /\ PendingTimers > 0

\* a navigation to another video was detected and the session is still the
\* previous video's
AwaitingReinitialization ==
    /\ url \in VideoIds
    /\ state.currentVideoId \in VideoIds
    /\ state.currentVideoId # url

\* C5: from the detection of a navigation to a different video until the
\* session is reset for it, no step the extension takes on its own (a tick, a
\* step of initialize, a rate-change notification) writes a rate other than 1.0.
C5_NoStaleSpeed ==
    [][ AwaitingReinitialization /\ events' = events
        => playbackRate' \in {playbackRate, One}
      ]_vars

\* the session fields other than isEnabled (and the two initialize sets
\* itself) hold their initial values
FieldsReset(s) ==
    /\ s.transcript = NoTranscript
    /\ s.hasTranscript = FALSE
    /\ s.currentSpeed = One
    /\ s.speakingPace = NoPace
    /\ s.lastCalculationVideoTime = 0
    /\ s.wasAdPlaying = FALSE
    /\ s.lastVideoTimeBeforeAd = 0
    /\ s.firstCalcDone = FALSE
    /\ s.manualSpeedOverride = FALSE
    /\ s.error = "null"

\* the state reset of an initialize for a video other than the session's,
\* a session having existed before
ResetForOtherVideo ==
    \E i \in Slots :
        /\ InitReset(i)
        /\ state.currentVideoId # 0
        /\ inits[i].videoId # state.currentVideoId

\* C6 (as stated): when initialize runs for a video id different from the
\* session's, every session field is reset to its initial value and isEnabled
\* keeps the value it had in the previous session.
C6_EnabledCarriedOver ==
    [][ ResetForOtherVideo
        => FieldsReset(state') /\ state'.isEnabled = state.isEnabled
      ]_vars

\* C6 (amended): when initialize runs for a video id different from the
\* session's, every session field is reset to its initial value and isEnabled
\* takes the saved setting when one is saved, and otherwise keeps the value
\* it had in the previous session.
C6_EnabledFromStorageOrCarriedOver ==
    [][ ResetForOtherVideo
        => /\ FieldsReset(state')
           /\ state'.isEnabled = IF storage.isEnabled = "true" THEN TRUE
                                 ELSE IF storage.isEnabled = "false" THEN FALSE
                                 ELSE state.isEnabled
      ]_vars

\* initialize has just reset the session for the second video, an earlier
\* initialize having run to its end, and the extension is off as the popup
\* saved it
C6_Witness ==
    /\ fx.op = "initReset"
    /\ uiInjected
    /\ state.currentVideoId = 2
    /\ ~state.isEnabled
    /\ storage = [isEnabled |-> "false", targetMultiplier |-> One]

C8_CurrentSpeedIsLastWrite ==
    [][ /\ playbackRate' # playbackRate /\ ~ExternalStep
           => state'.currentSpeed = playbackRate'
        /\ state'.manualSpeedOverride /\ ~state.manualSpeedOverride
           => state'.currentSpeed = playbackRate'
      ]_vars

\* C9: at most one monitoring ticker is running, and it is the one
\* checkInterval holds.
C9_OneTicker ==
    /\ Cardinality(timers) <= 1
    /\ timers \subseteq {checkInterval}

\* an initialize has just started monitoring in a session whose first
\* calculation was made before it ended, by a tick or by an overlapping
\* initialize that had started monitoring already
C9_Witness ==
    /\ fx.op = "initFetched"
    /\ state.firstCalcDone /\ ~state.hasTranscript
    /\ timers = {checkInterval}

\* a step of the player toggle or of an updateSettings message
SwitchStep == Toggle \/ (PopupToggle /\ isOnVideoPage)

\* C10: disabling (toggle, or updateSettings with isEnabled = false) sets the
\* playback rate and currentSpeed to 1.0 in the same step; enabling (toggle,
\* or updateSettings with isEnabled = true) triggers a recalculation that
\* runs whenever a transcript is loaded and no ad is showing.
C10_SwitchActsAtOnce ==
    [][ SwitchStep
        => /\ ~state'.isEnabled
              => state'.currentSpeed = One /\ (hasVideo => playbackRate' = One)
           /\ state'.isEnabled /\ state.hasTranscript
              => fx'.calc \in {"ran", "ad"}
      ]_vars

\* a change of the target multiplier that reaches the content script: the
\* player slider, or the popup slider's updateSettings message
MultiplierStep ==
    \/ \E m \in SliderValues : SliderChange(m)
    \/ isOnVideoPage /\ \E m \in SliderValues : PopupSlider(m)

\* C11: changing the target multiplier while the session is disabled sets
\* isEnabled to true, from the player slider and from the popup slider's
\* updateSettings message alike.
C11_MultiplierChangeEnables ==
    [][ MultiplierStep /\ ~state.isEnabled => state'.isEnabled ]_vars

\* the popup slider's message has just enabled a disabled session
C11_Witness ==
    /\ fx.op = "popupSlider"
    /\ ~fx.was
    /\ state.isEnabled

\* the session's transcript acquisition has ended without a transcript
AcquisitionFailed == state.error # "null"
InitFetchedStep == \E i \in Slots : InitFetched(i)
SliderStep == \E m \in SliderValues : SliderChange(m)

\* C12: when the transcript acquisition of initialize yields nothing,
\* initialize records an error, leaves hasTranscript false and starts
\* monitoring; for the rest of that session no tick and no slider change
\* writes the playback rate, while slider and toggle still update the
\* target multiplier and isEnabled.
C12_DegradedSession ==
    [][ /\ InitFetchedStep /\ ~state'.hasTranscript
           => /\ state'.error # "null"
              /\ checkInterval' # 0 /\ timers' = {checkInterval'}
        /\ AcquisitionFailed /\ (Tick \/ SliderStep)
           => playbackRate' = playbackRate
        /\ \A m \in SliderValues :
               SliderChange(m) => targetMultiplier' = m /\ state'.isEnabled
        /\ Toggle => state'.isEnabled = ~state.isEnabled
      ]_vars

InitStartStep == \E i \in Slots : InitStart(i)
\* initialize() calls that are past their first check
RunningInits == Cardinality({i \in Slots : inits[i].pc \in {"storage", "video", "fetch"}})

\* C13: a running ticker is stopped only by a step that finds the page is not
\* a watch page (whatever the session's transcript, ad, override or enabled
\* state), and that step marks the session uninitialized; an initialize that
\* then starts on a watch page does not return at its first check, whatever
\* the video id.
C13_TickerStopsOnlyOffPage ==
    [][ /\ timers # {} /\ timers' = {}
           => /\ ~isOnVideoPage
              /\ Tick \/ InitStartStep
              /\ ~state'.initialized
              /\ checkInterval' = 0
        /\ InitStartStep /\ isOnVideoPage /\ ~state.initialized
           => RunningInits' = RunningInits + 1
      ]_vars

\* monitoring had started and the ticker has been stopped off the watch page
C13_Witness ==
    /\ uiInjected
    /\ timers = {}
    /\ ~state.initialized
    /\ ~isOnVideoPage

(***************************************************************************)
(* SpeedController and SpeedAnalyzer contracts (SpecLibrary)               *)
(***************************************************************************)
Normalized == call.fn = "normalizeSpeed" /\ call.ret # <<>>
Clamped(x) == Max(MIN_SPEED, Min(MAX_SPEED, x))

\* C14: whatever speed normalizeSpeed is given, it returns a value between
\* 1.0 and 3.0 that is a multiple of 0.05 and that no other multiple of 0.05
\* is closer to the clamped input
C14_NormalizedOnGrid ==
    Normalized =>
        LET r == call.ret[1]
        IN /\ r >= MIN_SPEED /\ r <= MAX_SPEED
           /\ r % SPEED_INCREMENT = 0
           /\ 2 * Abs(r - Clamped(call.arg[1])) <= SPEED_INCREMENT

\* normalizeSpeed has returned for an input outside [1.0, 3.0] that is not
\* a multiple of 0.05
C14_Witness ==
    /\ Normalized
    /\ call.arg[1] > MAX_SPEED
    /\ call.arg[1] % SPEED_INCREMENT # 0
    /\ call.ret[1] = MAX_SPEED

\* C15: normalizeSpeed applied to its own result returns that result
C15_NormalizeIdempotent ==
    call.fn = "normalizeSpeed" /\ Len(call.ret) = 2 => call.ret[2] = call.ret[1]

\* normalizeSpeed has run twice on an input that the first run changed
C15_Witness ==
    /\ call.fn = "normalizeSpeed" /\ Len(call.ret) = 2
    /\ call.ret[1] # call.arg[1]
    /\ call.arg[1] > MIN_SPEED /\ call.arg[1] < MAX_SPEED

SetSpeedStep == \E x \in BenchSpeeds : CallSetSpeed(x)

\* C16: setSpeed called while no video element exists writes no rate,
\* leaves _currentSpeed as it was and returns it; the call returns normally
\* and stops no timer of its caller
C16_NoTargetNoWrite ==
    [][ SetSpeedStep /\ ~hasVideo
          => /\ playbackRate' = playbackRate
             /\ call'.cache = call.cache
             /\ call'.ret = <<call.cache>>
             /\ timers' = timers ]_vars

\* setSpeed has returned a cached speed that is neither the initial one nor
\* the normalized request: it was called without a video element after
\* getSpeed or setSpeed had cached the rate of an earlier element
C16_Witness ==
    /\ call.fn = "setSpeed" /\ ~hasVideo
    /\ call.ret = <<call.cache>>
    /\ call.cache # One
    /\ call.cache # normalizeSpeed(call.arg[1])

\* C17: setSpeed with a video element present sets the element's rate to the
\* normalized request exactly when the rate differs from it by 0.01 or
\* more, and returns the rate the element has after the call
C17_ReturnsEffectiveRate ==
    [][ SetSpeedStep /\ hasVideo
          => LET target == normalizeSpeed(call'.arg[1])
             IN /\ playbackRate' = IF Abs(playbackRate - target) >= 10
                                   THEN target ELSE playbackRate
                /\ call'.ret = <<playbackRate'>> ]_vars

Analyzed == call.fn = "analyze" /\ call.ret # <<>>

\* C18: for a non-empty transcript and any currentTime, analyze reports
\* between 0 and LOOKAHEAD_SEGMENTS (12) analyzed segments
C18_AtMostLookahead ==
    Analyzed =>
        /\ call.ret[1].segmentsAnalyzed >= 0
        /\ call.ret[1].segmentsAnalyzed <= LOOKAHEAD_SEGMENTS

\* analyze has run on a transcript with more than 12 segments ahead of
\* currentTime and reported exactly 12
C18_Witness ==
    /\ Analyzed
    /\ call.arg[2] > LOOKAHEAD_SEGMENTS
    /\ call.arg[3] = 0
    /\ call.ret[1].segmentsAnalyzed = LOOKAHEAD_SEGMENTS

\* the window analyze works on: the upcoming segments without music markers
FilteredWindow ==
    SelectSeq(getUpcomingSegments(ArgTranscript(call.arg), call.arg[3]), NotMusic)
WindowStats == calculateWordStats(FilteredWindow)

\* the two segments 'hello world' (0 s, 2 s) and 'foo bar baz' (2 s, 2 s) at
\* currentTime 0
SpecExample == call.fn = "analyze" /\ call.arg = <<"talk", 2, 0>>

\* what C19 says of every non-empty filtered window: wordsPerSec is
\* totalWords / totalDuration, recommendedSpeed is the multiple of 0.05
\* nearest to 2.45 / wordsPerSec, unclamped, and 1.0 when wordsPerSec <= 0
RecommendationRule ==
    Analyzed /\ Len(FilteredWindow) > 0 =>
        LET W == WindowStats.totalWords
            D == WindowStats.totalDuration
            r == call.ret[1].recommendedSpeed
        IN /\ call.ret[1].wordsPerSec = <<W, D>>
           /\ W <= 0 => r = One
           /\ W > 0 => /\ r % SPEED_INCREMENT = 0
                       /\ 2 * Abs(r * W - BaselineNum * SPEED_INCREMENT * D)
                            <= SPEED_INCREMENT * W

ExampleTotals ==
    Analyzed /\ SpecExample => call.ret[1].wordsPerSec = <<5, 4>>

\* C19 as stated: the rule, and for the example 5 words, 4 seconds and a
\* recommended speed of 2.0
C19_RecommendationAsStated ==
    /\ RecommendationRule
    /\ ExampleTotals
    /\ Analyzed /\ SpecExample => call.ret[1].recommendedSpeed = 2000

\* C19 with the example's result as the code computes it: 2.45 / 1.25 = 1.96,
\* 1.96 * 20 = 39.2, which rounds to 39, so the recommended speed is 1.95
C19_RecommendationRule ==
    /\ RecommendationRule
    /\ ExampleTotals
    /\ Analyzed /\ SpecExample => call.ret[1].recommendedSpeed = 1950

\* analyze has returned for the example
C19_Witness ==
    /\ Analyzed /\ SpecExample
    /\ Len(FilteredWindow) = 2
    /\ call.ret[1].recommendedSpeed = 1950

Windowed == call.fn = "getUpcomingSegments" /\ call.ret # <<>>

\* C20: the window is the up to 12 consecutive segments beginning with the
\* first segment that starts at or after currentTime; when there is none it
\* is the last min(12, length) segments; it is never empty for a non-empty
\* transcript
C20_LookaheadWindow ==
    Windowed =>
        LET T == ArgTranscript(call.arg)
            n == Len(T)
            t == call.arg[3]
            w == call.ret[1]
            ahead == {i \in 1..n : T[i].start >= t}
        IN /\ \A first \in ahead :
                 (\A j \in 1..(first - 1) : j \notin ahead)
                    => w = SubSeq(T, first, Min(n, first + LOOKAHEAD_SEGMENTS - 1))
           /\ ahead = {}
                 => w = SubSeq(T, n - Min(LOOKAHEAD_SEGMENTS, n) + 1, n)
           /\ Len(w) >= 1 /\ Len(w) <= LOOKAHEAD_SEGMENTS

\* getUpcomingSegments has run with currentTime past every segment of a
\* transcript longer than 12 and returned its last 12 segments
C20_Witness ==
    /\ Windowed
    /\ call.arg[2] > LOOKAHEAD_SEGMENTS
    /\ \A i \in 1..call.arg[2] : ArgTranscript(call.arg)[i].start < call.arg[3]
    /\ Len(call.ret[1]) = LOOKAHEAD_SEGMENTS
    /\ call.ret[1][LOOKAHEAD_SEGMENTS] = ArgTranscript(call.arg)[call.arg[2]]

\* a segment whose text is exactly a music marker
IsMarker(seg) == seg.text = MusicUpper \/ seg.text = MusicLower
NotMarker(seg) == ~IsMarker(seg)
\* the window analyze looks at, before and after deleting the markers
Window == getUpcomingSegments(ArgTranscript(call.arg), call.arg[3])
WithoutMarkers == SelectSeq(Window, NotMarker)

\* C21: the totals analyze works with are those of the window with its
\* "[Music]" / "[music]" segments deleted, and a window of nothing but such
\* markers gives the baseline result (2.45 words/sec, speed 1.0, 0 segments)
C21_MusicMarkersIgnored ==
    Analyzed =>
        IF WithoutMarkers = <<>>
        THEN call.ret[1] = [wordsPerSec |-> <<BaselineNum, BaselineDen>>,
                            recommendedSpeed |-> One, segmentsAnalyzed |-> 0]
        ELSE LET words == SumWords(WithoutMarkers, Len(WithoutMarkers))
                 duration == SumDuration(WithoutMarkers, Len(WithoutMarkers))
             IN /\ call.ret[1].segmentsAnalyzed = Len(WithoutMarkers)
                /\ call.ret[1].wordsPerSec[1] = words
                /\ duration > 0 => call.ret[1].wordsPerSec[2] = duration

\* analyze has run on a window that holds a "[music]" marker next to spoken
\* captions
C21_Witness ==
    /\ Analyzed
    /\ \E i \in 1..Len(Window) : Window[i].text = MusicLower
    /\ WithoutMarkers # <<>>
    /\ Len(WithoutMarkers) < Len(Window)

(***************************************************************************)
(* Initialization and the monitoring tick (Spec)                           *)
(***************************************************************************)
\* C22: the transcript the session holds, and so every speed computed from
\* it, is the transcript of the session's own video: a result fetched for
\* another video id is discarded
C22_TranscriptOfSessionVideo ==
    state.transcript # NoTranscript => state.transcript = state.currentVideoId

WaitingForVideo == \E i \in Slots : inits[i].pc = "video"

\* C23: an initialize that waits for a ready video stops waiting after a
\* bounded number of polls, whether or not the video ever becomes ready
C23_WaitForVideoEnds == WaitingForVideo ~> ~WaitingForVideo

(***************************************************************************)
(* The monitoring tick (SpecTicker)                                        *)
(***************************************************************************)
Ticking == timers # {} /\ isOnVideoPage
AdProbes == {p \in TickProbes : p.ad}
ClearProbes == {p \in TickProbes : ~p.ad}

\* C24: a tick that detects an ad sets wasAdPlaying, stores the current
\* video time in lastVideoTimeBeforeAd, changes nothing else, invokes no
\* recalculation and writes no rate, however long ago the last calculation
\* was
C24_AdTickOnlyRecords ==
    Ticking =>
        \A p \in AdProbes :
            LET e == tick(state, p)
            IN /\ e.state = [state EXCEPT !.wasAdPlaying = TRUE,
                                          !.lastVideoTimeBeforeAd = p.time]
               /\ e.calc = "none"
               /\ ~e.called /\ ~e.wrote
               /\ e.rate = playbackRate

\* a tick has detected an ad at a video time that is a recalculation
\* interval or more past the last calculation of an enabled session with a
\* transcript, and has left the rate and the session's speed alone
C24_Witness ==
    /\ fx.op = "tick" /\ fx.calc = "none"
    /\ state.wasAdPlaying
    /\ state.hasTranscript /\ state.isEnabled /\ ~state.manualSpeedOverride
    /\ state.lastVideoTimeBeforeAd - state.lastCalculationVideoTime
           >= RECALC_INTERVAL_SECONDS

\* C25: while the ad flag is set, a tick that still detects the ad invokes
\* no recalculation; the first tick that detects none clears the flag and
\* the time snapshot, sets firstCalcDone and invokes a recalculation,
\* which runs whatever the video time and whether or not the video plays
\* (unless performSpeedCalculation's own guards skip it)
C25_ResumeAfterAd ==
    Ticking /\ state.wasAdPlaying =>
        /\ \A p \in AdProbes : tick(state, p).calc = "none"
        /\ \A p \in ClearProbes :
               LET e == tick(state, p)
               IN /\ ~e.state.wasAdPlaying
                  /\ e.state.lastVideoTimeBeforeAd = 0
                  /\ e.state.firstCalcDone
                  /\ e.calc # "none"
                  /\ (state.hasTranscript /\ state.isEnabled
                         /\ ~state.manualSpeedOverride)
                       => /\ e.calc = "ran"
                          /\ e.state.lastCalculationVideoTime = p.time

\* a tick that began with the ad flag set has cleared it and recalculated
C25_Witness ==
    /\ fx.op = "tickAfterAd" /\ fx.calc = "ran"
    /\ ~state.wasAdPlaying
    /\ state.lastVideoTimeBeforeAd = 0
    /\ state.firstCalcDone

\* C26: on a tick without an ad, with the ad flag clear and firstCalcDone
\* set, nothing happens when there is no transcript or the video is not
\* playing; otherwise a recalculation is invoked exactly when the video time
\* is 16 s or more past lastCalculationVideoTime or more than 2 s before it
C26_SteadyTick ==
    Ticking /\ ~state.wasAdPlaying /\ state.firstCalcDone =>
        \A p \in ClearProbes :
            LET e == tick(state, p)
                delta == p.time - state.lastCalculationVideoTime
            IN IF ~state.hasTranscript \/ ~p.playing
               THEN /\ e.state = state
                    /\ e.rate = playbackRate
                    /\ e.calc = "none"
               ELSE IF delta >= 16 \/ delta < -2
               THEN e.calc # "none"
               ELSE /\ e.state = state
                    /\ e.rate = playbackRate
                    /\ e.calc = "none"

\* a steady tick has recalculated at video time 0: the video was sought
\* back by 3 s or more since the last calculation
C26_Witness ==
    /\ fx.op = "tick" /\ fx.calc = "ran"
    /\ state.hasTranscript /\ state.firstCalcDone
    /\ state.lastCalculationVideoTime = 0

\* C27: a ratechange event sets manualSpeedOverride and stores the video's
\* rate in state.currentSpeed exactly when that rate differs from
\* state.currentSpeed and firstCalcDone is set; otherwise it leaves the
\* session as it is
C27_RateChangeDetection ==
    [][ RateChange =>
          IF playbackRate # state.currentSpeed /\ state.firstCalcDone
          THEN state' = [state EXCEPT !.manualSpeedOverride = TRUE,
                                      !.currentSpeed = playbackRate]
          ELSE state' = state ]_vars

\* the listener has taken a rate set from outside for a manual override
C27_Witness ==
    /\ state.manualSpeedOverride
    /\ state.firstCalcDone
    /\ state.currentSpeed \in ExternalRates
    /\ state.currentSpeed = playbackRate
    /\ rateEvents = 0

(***************************************************************************)
(* performSpeedCalculation                                                 *)
(***************************************************************************)
\* the analysis of the session's transcript at the time of the last
\* calculation
LastAnalysis ==
    analyze(TranscriptOf(state.transcript), state.lastCalculationVideoTime)

\* C28: a performSpeedCalculation that is not skipped leaves the rate at
\* normalize(recommendedSpeed * targetMultiplier), state.currentSpeed equal
\* to the video's rate, speakingPace equal to the analysed wordsPerSec and
\* lastCalculationVideoTime equal to the video's current time, and hands
\* the panel (wordsPerSec, wordsPerSec * applied, applied)
C28_CalculationApplied ==
    /\ fx.calc = "ran" =>
          LET wps == LastAnalysis.wordsPerSec
              applied == normalizeSpeed(
                             (LastAnalysis.recommendedSpeed * targetMultiplier) \div One)
          IN /\ playbackRate = applied
             /\ state.currentSpeed = playbackRate
             /\ state.speakingPace = wps
             /\ updatePanelArgs(state)
                    = <<wps, <<wps[1] * applied, wps[2] * One>>, applied>>
    /\ \A p \in TickProbes :
          LET e == performSpeedCalculation(state, targetMultiplier, p)
          IN e.calc = "ran" => e.state.lastCalculationVideoTime = getCurrentTime(p)

Quantized == call.fn = "clampAndRound" /\ call.ret # <<>>
ProductClamped ==
    Max(MIN_SPEED * One, Min(MAX_SPEED * One, call.arg[1] * call.arg[2]))

\* C29 as stated: for every product recommendedSpeed * targetMultiplier the
\* clamp and rounding of performSpeedCalculation gives the value that
\* normalizeSpeed gives for the product, and normalizeSpeed leaves that
\* value unchanged
C29_SameAsNormalizeSpeed ==
    Quantized =>
        /\ call.ret[1] = call.ret[2]
        /\ call.ret[3] = call.ret[1]

\* C29 as the code has it: both give a multiple of 0.05 within [1.0, 3.0]
\* that is nearest to the clamped product, the same one unless the product
\* is a tie between two steps, and normalizeSpeed leaves the value of
\* performSpeedCalculation unchanged
C29_NormalizeKeepsTarget ==
    Quantized =>
        /\ \A i \in 1..2 :
              /\ call.ret[i] >= MIN_SPEED /\ call.ret[i] <= MAX_SPEED
              /\ call.ret[i] % SPEED_INCREMENT = 0
              /\ 2 * Abs(call.ret[i] * One - ProductClamped) <= SPEED_INCREMENT * One
        /\ call.ret[1] # call.ret[2]
              => 2 * Abs(call.ret[1] * One - ProductClamped) = SPEED_INCREMENT * One
        /\ call.ret[3] = call.ret[1]

\* recommendedSpeed 1.5 and multiplier 1.15 (product 1.725): the content
\* script has rounded to 1.75, normalizeSpeed to 1.70
C29_Witness ==
    /\ Quantized
    /\ call.arg = <<1500, 1150>>
    /\ call.ret = <<1750, 1700, 1750>>

\* what segment i of window w adds to the total duration, as C30 has it
GapAfter(w, i) == w[i + 1].start - w[i].start
Contribution(w, i) ==
    IF i = Len(w) THEN w[i].duration
    ELSE IF GapAfter(w, i) > 0 /\ GapAfter(w, i) < w[i].duration
    THEN GapAfter(w, i)
    ELSE w[i].duration

RECURSIVE TotalContribution(_, _)
TotalContribution(w, i) ==
    IF i = 0 THEN 0 ELSE TotalContribution(w, i - 1) + Contribution(w, i)

\* C30: the total duration analyze divides by is the sum, over the window
\* without its music markers, of the gap to the next segment's start where
\* that gap is positive and smaller than the segment's raw duration, and of
\* the raw duration elsewhere and for the last segment
C30_EffectiveDurations ==
    Analyzed /\ WithoutMarkers # <<>> =>
        LET total == TotalContribution(WithoutMarkers, Len(WithoutMarkers))
        IN total > 0 => call.ret[1].wordsPerSec[2] = total

\* analyze has totalled a window in which one segment starts together with
\* the next and another overlaps the next
C30_Witness ==
    /\ Analyzed
    /\ \E i \in 1..(Len(WithoutMarkers) - 1) : GapAfter(WithoutMarkers, i) = 0
    /\ \E i \in 1..(Len(WithoutMarkers) - 1) :
           /\ GapAfter(WithoutMarkers, i) > 0
           /\ GapAfter(WithoutMarkers, i) < WithoutMarkers[i].duration
    /\ call.ret[1].wordsPerSec[2]
           = TotalContribution(WithoutMarkers, Len(WithoutMarkers))

\* C31: when the effective durations of a non-empty filtered window sum to
\* 0 or less, the total duration is taken to be 1 and the word count is
\* kept: analyze returns wordsPerSec = totalWords, the recommended speed
\* for that pace and the size of the window, not the baseline result
C31_ZeroDurationForcedToOne ==
    Analyzed /\ WithoutMarkers # <<>>
             /\ TotalContribution(WithoutMarkers, Len(WithoutMarkers)) <= 0 =>
        LET words == SumWords(WithoutMarkers, Len(WithoutMarkers))
        IN /\ call.ret[1].wordsPerSec = <<words, 1>>
           /\ call.ret[1].recommendedSpeed
                  = (IF words <= 0 THEN One
                     ELSE SPEED_INCREMENT * RoundDiv(BaselineNum, words))
           /\ call.ret[1].segmentsAnalyzed = Len(WithoutMarkers)
           /\ call.ret[1].segmentsAnalyzed > 0

\* analyze has run on spoken captions that all have duration 0 and has
\* returned their word count as the pace
C31_Witness ==
    /\ Analyzed
    /\ WithoutMarkers # <<>>
    /\ \A i \in 1..Len(WithoutMarkers) : WithoutMarkers[i].duration = 0
    /\ call.ret[1].wordsPerSec[1] > 0
    /\ call.ret[1].wordsPerSec[2] = 1
    /\ call.ret[1].segmentsAnalyzed = Len(WithoutMarkers)

\* the transcript handed to analyze has text in every segment (something
\* is left after trimming) and no negative start or duration
ProperTranscript ==
    \A i \in 1..call.arg[2] :
        LET seg == ArgTranscript(call.arg)[i]
        IN Trim(seg.text) # <<>> /\ seg.start >= 0 /\ seg.duration >= 0

\* C32: for every such transcript and every currentTime the wordsPerSec
\* that analyze returns is greater than 0
C32_PositivePace ==
    Analyzed /\ ProperTranscript =>
        /\ call.ret[1].wordsPerSec[1] > 0
        /\ call.ret[1].wordsPerSec[2] > 0
(***************************************************************************)
(* Initialization, repeated (Spec)                                         *)
(***************************************************************************)
\* the initialize calls that have reset the session and are waiting for the
\* video or for the transcript
Acquiring == {i \in Slots : inits[i].pc \in {"video", "fetch"}}

\* initialize call i runs on a watch page for the video id of the session
\* that is already initialized: at its start (the id is read from the URL)
\* or when it resumes with the stored preferences (the id it read before)
ForCurrentSession(i) ==
    /\ isOnVideoPage
    /\ state.initialized
    /\ \/ inits[i].pc = "timer" /\ url = state.currentVideoId
       \/ inits[i].pc = "storage" /\ inits[i].videoId = state.currentVideoId

\* C33: an initialize for the video id of the already-initialized session
\* changes no field of the session and starts no further transcript
\* acquisition, also when it overlaps another initialize of the same
\* navigation that was still waiting for the stored preferences
C33_NoReinitialization ==
    [][ \A i \in Slots :
          ForCurrentSession(i) /\ (InitStart(i) \/ InitReset(i))
              => /\ state' = state
                 /\ Cardinality(Acquiring') = Cardinality(Acquiring) ]_vars
(***************************************************************************)
(* Recalculation, repeated (Spec)                                          *)
(***************************************************************************)
\* the readings that a second performSpeedCalculation, invoked right after
\* the one of the last step, shares with it
SameReadings ==
    {p \in CalcProbes :
        /\ p.ad = (fx.calc = "ad")
        /\ fx.calc = "ran" => p.time = state.lastCalculationVideoTime}

\* the speed the last calculation aimed at, from what the session records
LastTarget ==
    normalizeSpeed((LastAnalysis.recommendedSpeed * targetMultiplier) \div One)

\* C34: a performSpeedCalculation that follows another with the same
\* transcript, video time, multiplier and rate ends as the first did, writes
\* no rate and leaves the session as the first left it; handlers run one
\* after the other, and after each calculation the session's speed is the
\* target of that calculation and the rate is that target (or within the
\* dead-band of it)
C34_RecalculationIdempotent ==
    /\ fx.calc # "none" =>
          \A p \in SameReadings :
              LET e == performSpeedCalculation(state, targetMultiplier, p)
              IN /\ e.calc = fx.calc
                 /\ e.state = state
                 /\ e.rate = playbackRate
                 /\ ~e.wrote
    /\ fx.calc = "ran" =>
          /\ state.currentSpeed = LastTarget
          /\ Abs(playbackRate - LastTarget) < 10

\* the slider's recalculation has written a rate above 1.0 at video time 0,
\* where a repeated call invokes setSpeed again
C34_Witness ==
    /\ fx.op = "slider" /\ fx.calc = "ran"
    /\ state.lastCalculationVideoTime = 0
    /\ playbackRate > One
    /\ playbackRate = state.currentSpeed
    /\ SameReadings # {}
(***************************************************************************)
(* From initialize to the first tick (Spec)                                *)
(***************************************************************************)
\* initialize has just got a transcript with at least one segment and gone
\* on to start monitoring
InitializedWithTranscript == fx.op = "initFetched" /\ state.hasTranscript

SystemWrite == playbackRate' # playbackRate /\ ~ExternalStep

\* C36: every value the extension writes to the playback rate, by a speed
\* calculation, by a disable through the toggle or a settings message, or
\* by the reset at navigation, lies in [1.0, 3.0] and is a multiple of 0.05
C36_WrittenRatesOnGrid ==
    [][ SystemWrite => /\ playbackRate' >= MIN_SPEED
                       /\ playbackRate' <= MAX_SPEED
                       /\ playbackRate' % SPEED_INCREMENT = 0 ]_vars

\* a calculation whose product recommendedSpeed * targetMultiplier exceeds
\* 3.0 has written the rate
C36_Witness ==
    /\ fx.calc = "ran"
    /\ LastAnalysis.recommendedSpeed * targetMultiplier > MAX_SPEED * One
    /\ playbackRate = MAX_SPEED
    /\ state.currentSpeed = MAX_SPEED
\* C37: a step of the extension that leaves the session disabled writes no
\* rate other than 1.0: no tick, ad end, seek or settings message applies
\* a computed speed while isEnabled is false
C37_DisabledWritesOnlyOne ==
    [][ SystemWrite /\ ~state'.isEnabled => playbackRate' = One ]_vars

\* a tick in a disabled session with a transcript has skipped a calculation
\* that would have changed the rate
C37_Witness ==
    /\ fx.op = "tick" /\ fx.calc = "disabled"
    /\ ~state.isEnabled /\ state.hasTranscript
    /\ ~state.manualSpeedOverride
    /\ \E p \in CalcProbes :
           ~p.ad /\ targetSpeedOf(state.transcript, p.time, targetMultiplier) # playbackRate
(***************************************************************************)
(* Manual-override detection (SpecNoExternal)                              *)
(***************************************************************************)
\* C38: where nobody but the extension changes the rate, no ratechange
\* notification sets manualSpeedOverride: the extension's own writes (speed
\* calculation, disable, the reset at navigation) are not taken for manual
\* changes, also when the navigation signal is for the session's own video
C38_OwnWritesNotManual ==
    [][ RateChange => (state'.manualSpeedOverride => state.manualSpeedOverride) ]_vars
\* a calculation has been carried out in the session: speakingPace, null
\* in a fresh session, is assigned by every calculation that is not skipped
\* and by nothing else
CalculationCarriedOut == state.speakingPace # NoPace

\* C39: firstCalcDone is true only in a session in which a speed
\* calculation has been carried out; a calculation that initialize or the
\* first tick invoked and that was skipped (ad, disabled session, no
\* transcript) does not set it
C39_FirstCalcDoneMeansCalculated ==
    state.firstCalcDone => CalculationCarriedOut
(***************************************************************************)
(* Adaptation keeps up with the video (SpecPlayback)                       *)
(***************************************************************************)
\* the ticker runs in an enabled session with a transcript and no manual
\* override, no ad shows, the video plays, and its time is 16 s or more
\* past the time of the last calculation
Lagging ==
    /\ Ticking
    /\ state.hasTranscript /\ state.isEnabled /\ ~state.manualSpeedOverride
    /\ player.playing /\ ~player.ad
    /\ player.time - state.lastCalculationVideoTime >= RECALC_INTERVAL_SECONDS

\* C40: the first tick that finds the video 16 s or more past
\* lastCalculationVideoTime in such a session carries out a recalculation,
\* which brings lastCalculationVideoTime to the video time; so, the ticker
\* being run again and again, such a lag never lasts
C40_AdaptationKeepsUp ==
    /\ [][ PlaybackTick /\ Lagging
              => /\ fx'.calc = "ran"
                 /\ state'.lastCalculationVideoTime = player.time ]_vars
    /\ (Lagging ~> ~Lagging)

\* a tick has recalculated at a video time 16 s or more after the start,
\* with the video still playing
C40_Witness ==
    /\ fx.op = "tick" /\ fx.calc = "ran"
    /\ state.firstCalcDone
    /\ player.playing /\ ~player.ad
    /\ player.time >= RECALC_INTERVAL_SECONDS
    /\ state.lastCalculationVideoTime = player.time

====
